---------------------------- MODULE Spec2Model ----------------------------
(***************************************************************************)
(* A model of the shader-preview host of src/main.c: the render-config     *)
(* parser, the renderer's vertex batch, the texture and shader reloads,    *)
(* the key callback and the frame loop of main.                            *)
(*                                                                         *)
(* Units: the clocks (glfwGetTime, time, prev_time) are integers counting  *)
(* tenths of a second, so MANUAL_TIME_STEP (0.1) is 1.                     *)
(* Text: a character is a one-character string, a C string is a sequence   *)
(* of characters ending at the first NUL of its buffer.                    *)
(***************************************************************************)
EXTENDS Integers, Sequences, FiniteSets, TLC

VARIABLES
    pc,            \* where the process is: "start", "loop" (top of the loop body), "poll"
                   \* (in glfwPollEvents), "exited", "aborted"; "conf" and "batch" in the
                   \* specifications of the config scan and of the vertex batch
    r,             \* global_renderer
    gl,            \* the state of the graphics API the renderer drives
    render_conf,   \* the malloc'ed config buffer (a sequence of characters, NUL-terminated); <<>> is NULL
    vert_path,     \* index into render_conf where the string starts; 0 is NULL
    frag_path,
    texture_path,
    time,          \* the simulation clock
    pause,
    prev_time,     \* main's local prev_time
    wall,          \* the last value glfwGetTime returned
    conf_file,     \* what render.conf holds, as of the last time it was read
    frame_calls,   \* the graphics calls of the current/last loop iteration
    last_reload    \* the last reload (main's or an F5's): what the files did and what it called

vars == <<pc, r, gl, render_conf, vert_path, frag_path, texture_path, time, pause,
          prev_time, wall, conf_file, frame_calls, last_reload>>

----------------------------------------------------------------------------
(* Bounds of the model *)

\* lines in a render.conf the parser specification enumerates
MaxConfLines == 3
\* largest value glfwGetTime returns
MaxWall == 3
\* how far manual steps may move the clock below 0 or above 2*MaxWall
MaxStepSpan == 2
\* names the graphics API hands out for programs and for textures: 1..MaxHandles
MaxHandles == 2
\* shader objects that may be live at once
MaxShaders == 2
\* capacity of the vertex batch; 8 * 1024 in the source, scaled down here
VERTEX_BUF_CAP == 7

(* Program constants *)
MANUAL_TIME_STEP == 1
DEFAULT_SCREEN_WIDTH == 1600
DEFAULT_SCREEN_HEIGHT == 900

----------------------------------------------------------------------------
(* Characters and string views (sv.h as used by reload_render_conf) *)

NUL == "NUL"
NL == "\n"

isspace(c) == c \in {" ", "\t", "\n", "\r"}

\* A String_View is [data |-> index into the buffer, count |-> length].
sv_from_cstr(buf) ==
    LET n == CHOOSE k \in 0..Len(buf) :
                 /\ \A i \in 1..k : buf[i] # NUL
                 /\ (k < Len(buf) => buf[k + 1] = NUL)
    IN [data |-> 1, count |-> n]

sv_text(buf, sv) == SubSeq(buf, sv.data, sv.data + sv.count - 1)

\* the number of characters of sv before the first delim (sv.count if none)
sv_index_of(buf, sv, delim) ==
    CHOOSE i \in 0..sv.count :
        /\ \A j \in 0..(i - 1) : buf[sv.data + j] # delim
        /\ (i < sv.count => buf[sv.data + i] = delim)

sv_chop_by_delim(buf, sv, delim) ==
    LET i == sv_index_of(buf, sv, delim)
    IN [result |-> [data |-> sv.data, count |-> i],
        rest   |-> IF i < sv.count
                   THEN [data |-> sv.data + i + 1, count |-> sv.count - i - 1]
                   ELSE [data |-> sv.data + i, count |-> sv.count - i]]

sv_trim_left(buf, sv) ==
    LET i == CHOOSE k \in 0..sv.count :
                 /\ \A j \in 0..(k - 1) : isspace(buf[sv.data + j])
                 /\ (k < sv.count => ~isspace(buf[sv.data + k]))
    IN [data |-> sv.data + i, count |-> sv.count - i]

sv_trim_right(buf, sv) ==
    LET i == CHOOSE k \in 0..sv.count :
                 /\ \A j \in 0..(k - 1) : isspace(buf[sv.data + sv.count - 1 - j])
                 /\ (k < sv.count => ~isspace(buf[sv.data + sv.count - 1 - k]))
    IN [data |-> sv.data, count |-> sv.count - i]

sv_trim(buf, sv) == sv_trim_right(buf, sv_trim_left(buf, sv))

sv_eq(buf, sv, lit) == sv_text(buf, sv) = lit

SV_vert == <<"v", "e", "r", "t">>
SV_frag == <<"f", "r", "a", "g">>
SV_texture == <<"t", "e", "x", "t", "u", "r", "e">>

\* The C string starting at index p of buf (p = 0 is NULL and has no string).
CStr(buf, p) ==
    IF p = 0 THEN <<>>
    ELSE LET n == CHOOSE k \in 0..(Len(buf) - p + 1) :
                      /\ \A i \in 0..(k - 1) : buf[p + i] # NUL
                      /\ (p + k <= Len(buf) => buf[p + k] = NUL)
         IN SubSeq(buf, p, p + n - 1)

----------------------------------------------------------------------------
(* reload_render_conf: the scan of the buffer, lines 271-318 *)

\* `value`: what is left of the line after the key and the '='
conf_value(buf, line) == sv_trim_left(buf, line)

\* One non-empty, non-comment line (lines 281-317). c is the scan's state:
\* [buf, vert_path, frag_path, texture_path, diags].
conf_line(c, line0, line_start, row) ==
    LET chop  == sv_chop_by_delim(c.buf, line0, "=")
        key   == sv_trim(c.buf, chop.result)
        value == conf_value(c.buf, chop.rest)
        buf2  == [c.buf EXCEPT ![value.data + value.count] = NUL]
        c2    == [c EXCEPT !.buf = buf2]
    IN IF sv_eq(buf2, key, SV_vert) THEN [c2 EXCEPT !.vert_path = value.data]
       ELSE IF sv_eq(buf2, key, SV_frag) THEN [c2 EXCEPT !.frag_path = value.data]
       ELSE IF sv_eq(buf2, key, SV_texture) THEN [c2 EXCEPT !.texture_path = value.data]
       ELSE [c2 EXCEPT !.diags = Append(@, [row |-> row,
                                            col |-> key.data - line_start,
                                            key |-> sv_text(buf2, key)])]

RECURSIVE conf_scan(_, _, _)
conf_scan(c, content, row) ==
    IF content.count = 0 THEN c
    ELSE LET chop == sv_chop_by_delim(c.buf, content, NL)
             line == sv_trim_left(c.buf, chop.result)
             c2   == IF line.count > 0 /\ c.buf[line.data] # "#"
                     THEN conf_line(c, line, chop.result.data, row)
                     ELSE c
         IN conf_scan(c2, chop.rest, row + 1)

\* The buffer slurp_file_into_malloced_cstr returns for a file holding `text`.
slurp_file_into_malloced_cstr(text) == text \o <<NUL>>

\* reload_render_conf on a readable file: the scan's final state.
parse_render_conf(text) ==
    LET buf == slurp_file_into_malloced_cstr(text)
    IN conf_scan([buf |-> buf, vert_path |-> 0, frag_path |-> 0, texture_path |-> 0,
                  diags |-> <<>>],
                 sv_from_cstr(buf), 0)

----------------------------------------------------------------------------
(* The machine: every piece of program state the functions below read or   *)
(* write, as one record m, so that a function of the source is an operator *)
(* from m (and what the outside world answers) to m.                       *)

Machine == [pc |-> pc, r |-> r, gl |-> gl, render_conf |-> render_conf,
            vert_path |-> vert_path, frag_path |-> frag_path,
            texture_path |-> texture_path, time |-> time, pause |-> pause,
            conf_file |-> conf_file, calls |-> <<>>, diags |-> <<>>]

\* the process is gone: exit(1) or return from main, or a failed assert
Dead(m) == m.pc \in {"exited", "aborted"}

Log(m, c) == [m EXCEPT !.calls = Append(@, c)]

RED == <<1, 0, 0, 1>>
TRANSPARENT_BLACK == <<0, 0, 0, 0>>

\* glGetUniformLocation of "resolution", "time", "mouse" in a linked program
RESOLVED_UNIFORMS == <<0, 1, 2>>
\* and in a program that is not linked
INVALID_UNIFORMS == <<-1, -1, -1>>

Handles == 1..MaxHandles

----------------------------------------------------------------------------
(* Geometry batch and buffer: lines 187-233 *)

renderer_push_vertex(m, pos, uv, color) ==
    IF Dead(m) THEN m
    ELSE IF ~(m.r.vertex_buf_sz < VERTEX_BUF_CAP) THEN [m EXCEPT !.pc = "aborted"]
    ELSE [m EXCEPT !.r.vertex_buf = Append(SubSeq(@, 1, m.r.vertex_buf_sz),
                                           [pos |-> pos, uv |-> uv, color |-> color]),
                   !.r.vertex_buf_sz = @ + 1]

\* a push_quad whose second triangle is (a, c, d)
renderer_push_quad_shared_diagonal(m, p1, p2, color) ==
    LET a == p1
        b == <<p2[1], p1[2]>>
        c == <<p1[1], p2[2]>>
        d == p2
    IN renderer_push_vertex(
         renderer_push_vertex(
           renderer_push_vertex(
             renderer_push_vertex(
               renderer_push_vertex(
                 renderer_push_vertex(m, a, <<0, 0>>, color),
                 b, <<1, 0>>, color),
               c, <<0, 1>>, color),
             a, <<0, 0>>, color),
           c, <<0, 1>>, color),
         d, <<1, 1>>, color)

renderer_push_quad(m, p1, p2, color) ==
    LET a == p1
        b == <<p2[1], p1[2]>>
        c == <<p1[1], p2[2]>>
        d == p2
    IN renderer_push_vertex(
         renderer_push_vertex(
           renderer_push_vertex(
             renderer_push_vertex(
               renderer_push_vertex(
                 renderer_push_vertex(m, a, <<0, 0>>, color),
                 b, <<1, 0>>, color),
               c, <<0, 1>>, color),
             b, <<1, 0>>, color),
           c, <<0, 1>>, color),
         d, <<1, 1>>, color)

\* a sync that uploads one vertex less than the batch holds
renderer_sync_short(m) ==
    IF Dead(m) THEN m
    ELSE LET n == IF m.r.vertex_buf_sz > 0 THEN m.r.vertex_buf_sz - 1 ELSE 0
         IN [m EXCEPT !.gl.vbo = SubSeq(m.r.vertex_buf, 1, n) \o SubSeq(@, n + 1, Len(@))]

\* glBufferSubData(GL_ARRAY_BUFFER, 0, sizeof(Vertex) * sz, vertex_buf): the first sz
\* vertices of the buffer object are overwritten, the rest keep what they held.
renderer_sync(m) ==
    IF Dead(m) THEN m
    ELSE LET n == m.r.vertex_buf_sz
         IN [m EXCEPT !.gl.vbo = SubSeq(m.r.vertex_buf, 1, n) \o SubSeq(@, n + 1, Len(@))]

\* renderer_init: one vertex array, one buffer of the full capacity (all zero)
renderer_init(m) ==
    IF Dead(m) THEN m
    ELSE [m EXCEPT !.r.vao = 1, !.r.vbo = 1, !.gl.vbo = <<>>]

----------------------------------------------------------------------------
(* Shader program cache: lines 82-141, 235-254, 353-376 *)

\* glCreateShader, glShaderSource, glCompileShader: the shader object exists
\* whether or not the source compiles, and is not deleted here.
compile_shader_source(m, compiles) ==
    [ok |-> compiles,
     m  |-> Log([m EXCEPT !.gl.shaders = @ + 1], [call |-> "glCreateShader"])]

\* file: "good" (read and compiles), "bad" (read, does not compile) or
\* "unreadable" (slurp_file_into_malloced_cstr returned NULL)
compile_shader_file(m, file) ==
    IF file = "unreadable"
    THEN [ok |-> FALSE, m |-> m]
    ELSE compile_shader_source(m, file = "good")

\* `return program;` returns the pointer, which is never null: the result is true
\* whatever GL_LINK_STATUS said.
link_program_result(linked) == TRUE

\* *program = glCreateProgram() writes r->program (the caller passes &r->program)
link_program(m, linked, name) ==
    LET m1 == Log([m EXCEPT !.gl.programs = @ \cup {name},
                            !.gl.linked = IF linked THEN @ \cup {name} ELSE @ \ {name},
                            !.r.program = name],
                  [call |-> "glCreateProgram", name |-> name])
        m2 == Log(Log([m1 EXCEPT !.gl.shaders = @ - 2],
                      [call |-> "glDeleteShader"]), [call |-> "glDeleteShader"])
    IN [ok |-> link_program_result(linked), m |-> m2]

load_shader_program(m, vfile, ffile, linked, name) ==
    LET v == compile_shader_file(m, vfile)
        f == compile_shader_file(v.m, ffile)
        l == link_program(f.m, linked, name)
    IN IF ~v.ok THEN [ok |-> FALSE, m |-> v.m]
       ELSE IF ~f.ok THEN [ok |-> FALSE, m |-> f.m]
       ELSE IF ~l.ok THEN [ok |-> FALSE, m |-> l.m]
       ELSE [ok |-> TRUE, m |-> l.m]

\* a reload that does not delete the program of the reload before it
glDeleteProgram_skipped(m, name) == m

\* glDeleteProgram: 0 is ignored; a name that is no program is an error GL reports
glDeleteProgram(m, name) ==
    Log([m EXCEPT !.gl.programs = @ \ {name}, !.gl.linked = @ \ {name}],
        [call |-> "glDeleteProgram", name |-> name, live |-> name \in m.gl.programs])

glGetUniformLocations(m, name) ==
    IF name \in m.gl.linked THEN RESOLVED_UNIFORMS ELSE INVALID_UNIFORMS

glClearColor(m, color) == [m EXCEPT !.gl.clear_color = color]

\* a renderer_reload_shaders that takes every load for a success
reload_shaders_finish_unchecked(l) ==
    glClearColor([l.m EXCEPT !.r.uniforms = glGetUniformLocations(l.m, l.m.r.program),
                             !.r.program_failed = FALSE],
                 TRANSPARENT_BLACK)

\* what renderer_reload_shaders does once load_shader_program returned l (lines 361-375)
reload_shaders_finish(l) ==
    IF ~l.ok THEN l.m
    ELSE LET m1 == [l.m EXCEPT !.r.uniforms = glGetUniformLocations(l.m, l.m.r.program)]
         IN glClearColor([m1 EXCEPT !.r.program_failed = FALSE], TRANSPARENT_BLACK)

renderer_reload_shaders(m, vfile, ffile, linked, name) ==
    IF Dead(m) THEN m
    ELSE LET m0 == Log(m, [call |-> "renderer_reload_shaders",
                           vert |-> CStr(m.render_conf, m.vert_path),
                           frag |-> CStr(m.render_conf, m.frag_path)])
             m1 == glDeleteProgram(m0, m0.r.program)
             m2 == glClearColor([m1 EXCEPT !.r.program_failed = TRUE], RED)
         IN reload_shaders_finish(load_shader_program(m2, vfile, ffile, linked, name))

----------------------------------------------------------------------------
(* Texture slot: lines 321-351 *)

\* a replacement that does not delete the slot's texture
reload_textures_replace_leaking(m, name) ==
    Log([m EXCEPT !.gl.textures = @ \cup {name}, !.r.texture = name],
        [call |-> "glGenTextures", name |-> name])

\* lines 331-350: delete the slot's texture, generate one, bind and fill it
reload_textures_replace(m, name) ==
    LET m1 == Log([m EXCEPT !.gl.textures = @ \ {m.r.texture}],
                  [call |-> "glDeleteTextures", name |-> m.r.texture,
                   live |-> m.r.texture \in m.gl.textures])
    IN Log([m1 EXCEPT !.gl.textures = @ \cup {name},
                      !.r.texture = name],
           [call |-> "glGenTextures", name |-> name])

\* a renderer_reload_textures that replaces the slot's texture before it looks at
\* what stbi_load returned
renderer_reload_textures_eager(m, tex, name) ==
    IF Dead(m) THEN m
    ELSE reload_textures_replace(
             Log(m, [call |-> "renderer_reload_textures",
                     path |-> CStr(m.render_conf, m.texture_path)]),
             IF tex = "fail" THEN 1 ELSE name)

\* a renderer_reload_textures that shows a failed decode the way a failed shader
\* reload is shown: by the red clear color
renderer_reload_textures_flagging(m, tex, name) ==
    IF Dead(m) THEN m
    ELSE IF tex = "fail"
    THEN glClearColor(Log(m, [call |-> "renderer_reload_textures",
                              path |-> CStr(m.render_conf, m.texture_path)]), RED)
    ELSE reload_textures_replace(
             Log(m, [call |-> "renderer_reload_textures",
                     path |-> CStr(m.render_conf, m.texture_path)]),
             name)

\* tex: "ok" (stbi_load decoded the image) or "fail" (it returned NULL)
renderer_reload_textures(m, tex, name) ==
    IF Dead(m) THEN m
    ELSE LET m0 == Log(m, [call |-> "renderer_reload_textures",
                           path |-> CStr(m.render_conf, m.texture_path)])
         IN IF tex = "fail" THEN m0
            ELSE reload_textures_replace(m0, name)

----------------------------------------------------------------------------
(* render.conf on disk, and reload_render_conf: lines 261-319 *)

\* A line of the file: `pre key ws1 = ws2 value post` or `pre # value`.
KV(pre, key, ws1, ws2, value, post) ==
    [kind |-> "kv", pre |-> pre, key |-> key, ws1 |-> ws1, ws2 |-> ws2,
     value |-> value, post |-> post]
Comment(pre, text) ==
    [kind |-> "comment", pre |-> pre, key |-> <<>>, ws1 |-> <<>>, ws2 |-> <<>>,
     value |-> text, post |-> <<>>]

LineText(l) ==
    IF l.kind = "comment" THEN l.pre \o <<"#">> \o l.value
    ELSE l.pre \o l.key \o l.ws1 \o <<"=">> \o l.ws2 \o l.value \o l.post

RECURSIVE JoinLines(_)
JoinLines(ls) ==
    IF ls = <<>> THEN <<>>
    ELSE IF Len(ls) = 1 THEN LineText(ls[1])
    ELSE LineText(ls[1]) \o <<NL>> \o JoinLines(Tail(ls))

\* file: [readable |-> BOOLEAN, lines |-> its lines, nl |-> whether the last line ends in a newline]
ConfText(file) ==
    IF file.lines = <<>> THEN <<>>
    ELSE JoinLines(file.lines) \o (IF file.nl THEN <<NL>> ELSE <<>>)

L_vert == KV(<<>>, SV_vert, <<" ">>, <<" ">>, <<"a">>, <<>>)
L_frag == KV(<<>>, SV_frag, <<>>, <<>>, <<"b">>, <<>>)
L_texture == KV(<<" ", "\t">>, SV_texture, <<" ">>, <<" ", " ">>, <<"c">>, <<>>)
L_vert_trailing == KV(<<>>, SV_vert, <<" ">>, <<" ">>, <<"d">>, <<" ">>)
L_frag_cr == KV(<<>>, SV_frag, <<" ">>, <<" ">>, <<"g">>, <<"\r">>)
L_unknown == KV(<<>>, <<"f", "o", "o">>, <<" ">>, <<" ">>, <<"e">>, <<>>)
L_comment == Comment(<<>>, <<" ", "v", "e", "r", "t", "=", "z">>)

ConfLines == {L_vert, L_frag, L_texture, L_vert_trailing, L_frag_cr, L_unknown, L_comment}

Unreadable == [readable |-> FALSE, lines |-> <<>>, nl |-> FALSE]
NoFile == [readable |-> FALSE, lines |-> <<>>, nl |-> TRUE]

\* every file of at most MaxConfLines lines
AllConfFiles ==
    {[readable |-> TRUE, lines |-> ls, nl |-> b] :
        ls \in UNION {[1..n -> ConfLines] : n \in 0..MaxConfLines}, b \in BOOLEAN}

\* the files the render loop's specification reloads
LoopConfFiles ==
    {[readable |-> TRUE, lines |-> <<L_vert, L_frag, L_texture>>, nl |-> TRUE],
     [readable |-> TRUE, lines |-> <<L_unknown, L_vert>>, nl |-> FALSE],
     Unreadable}

\* the scan of every file the specifications read, computed once
ScannedConf == [f \in AllConfFiles \cup LoopConfFiles |-> parse_render_conf(ConfText(f))]

reload_render_conf(m, file) ==
    IF Dead(m) THEN m
    ELSE LET m0 == Log(m, [call |-> "reload_render_conf"])
         IN IF ~file.readable
            THEN [m0 EXCEPT !.pc = "exited", !.render_conf = <<>>, !.conf_file = file]
            ELSE LET c == ScannedConf[file]
                 IN [m0 EXCEPT !.render_conf = c.buf,
                               !.vert_path = c.vert_path,
                               !.frag_path = c.frag_path,
                               !.texture_path = c.texture_path,
                               !.conf_file = file,
                               !.diags = c.diags]

----------------------------------------------------------------------------
(* key_callback: lines 378-419 *)

\* in: what the outside world answers during the callback:
\* [file, tex, tname, vfile, ffile, linked, pname]

\* an F5 branch that reloads the texture before it reads render.conf
hot_reload_texture_first(m, in) ==
    renderer_reload_shaders(
        reload_render_conf(
            renderer_reload_textures(m, in.tex, in.tname),
            in.file),
        in.vfile, in.ffile, in.linked, in.pname)

\* the F5 branch, lines 386-388
hot_reload(m, in) ==
    renderer_reload_shaders(
        renderer_reload_textures(
            reload_render_conf(m, in.file),
            in.tex, in.tname),
        in.vfile, in.ffile, in.linked, in.pname)

\* the F6 branch, lines 390-404: reads the pixels and writes screenshot.png
screenshot(m) == Log(m, [call |-> "stbi_write_png"])

\* a step that does not look at pause
manual_step_unguarded(m, key) ==
    IF Dead(m) THEN m
    ELSE IF key = "LEFT" THEN [m EXCEPT !.time = @ - MANUAL_TIME_STEP]
    ELSE IF key = "RIGHT" THEN [m EXCEPT !.time = @ + MANUAL_TIME_STEP]
    ELSE m

\* lines 411-417
manual_step(m, key) ==
    IF Dead(m) THEN m
    ELSE IF m.pause
    THEN IF key = "LEFT" THEN [m EXCEPT !.time = @ - MANUAL_TIME_STEP]
         ELSE IF key = "RIGHT" THEN [m EXCEPT !.time = @ + MANUAL_TIME_STEP]
         ELSE m
    ELSE m

toggle_pause(m) == [m EXCEPT !.pause = ~@]

\* lines 385-409
key_pressed(m, key, in) ==
    IF key = "F5" THEN hot_reload(m, in)
    ELSE IF key = "F6" THEN screenshot(m)
    ELSE IF key = "SPACE" THEN toggle_pause(m)
    ELSE IF key = "Q" THEN [m EXCEPT !.pc = "exited"]
    ELSE m

key_callback(m, key, action, in) ==
    IF Dead(m) \/ action # "PRESS" THEN m
    ELSE manual_step(key_pressed(m, key, in), key)

----------------------------------------------------------------------------
(* main: lines 479-565 *)

\* lines 483-515. glfw_ok: glfwInit, glfwCreateWindow and the extension check all
\* succeeded (each failure is exit(1))
glfw_setup(m, glfw_ok) ==
    IF Dead(m) \/ glfw_ok THEN m ELSE [m EXCEPT !.pc = "exited"]

\* lines 538-540. t0: what glfwGetTime returns at line 538
enter_loop(m, t0) ==
    IF Dead(m) THEN m ELSE [m EXCEPT !.time = t0, !.pc = "loop"]

\* lines 481-540
main_startup(m, in, glfw_ok, t0) ==
    enter_loop(
        renderer_reload_shaders(
            renderer_reload_textures(
                renderer_sync(
                    renderer_push_quad(
                        renderer_init(glfw_setup(reload_render_conf(m, in.file), glfw_ok)),
                        <<-1, -1>>, <<1, 1>>, <<0, 0, 0, 0>>)),
                in.tex, in.tname),
            in.vfile, in.ffile, in.linked, in.pname),
        t0)

GLCall(name, mode, args) == [call |-> name, mode |-> mode, args |-> args]

\* a frame that uploads the cursor position as the window system gives it
frame_uniforms_and_draw_unflipped(m, size, cursor) ==
    << GLCall("glUniform2f", "-", <<m.r.uniforms[1], size[1], size[2]>>),
       GLCall("glUniform1f", "-", <<m.r.uniforms[2], m.time>>),
       GLCall("glUniform2f", "-", <<m.r.uniforms[3], cursor[1], cursor[2]>>),
       GLCall("glDrawArraysInstanced", "GL_TRIANGLES", <<0, m.r.vertex_buf_sz, 1>>) >>

\* lines 543-553: the uniforms and the draw of a frame whose program did not fail
frame_uniforms_and_draw(m, size, cursor) ==
    << GLCall("glUniform2f", "-", <<m.r.uniforms[1], size[1], size[2]>>),
       GLCall("glUniform1f", "-", <<m.r.uniforms[2], m.time>>),
       GLCall("glUniform2f", "-", <<m.r.uniforms[3], cursor[1], size[2] - cursor[2]>>),
       GLCall("glDrawArraysInstanced", "GL_TRIANGLES", <<0, m.r.vertex_buf_sz, 1>>) >>

\* a frame that draws whatever the state of the program
frame_draws_always(m) == TRUE

\* line 543
frame_draws(m) == ~m.r.program_failed

\* lines 541-553: size is what glfwGetWindowSize answers, cursor glfwGetCursorPos
frame_draw(m, size, cursor) ==
    <<GLCall("glClear", "-", m.gl.clear_color)>>
    \o (IF frame_draws(m) THEN frame_uniforms_and_draw(m, size, cursor) ELSE <<>>)

\* lines 557-560: the clock after a frame that sampled cur
frame_time(t, paused, cur, prev) ==
    IF ~paused THEN t + (cur - prev) ELSE t

----------------------------------------------------------------------------
(* What the outside world can answer *)

\* what glfwGetWindowSize and glfwGetCursorPos answer in a frame
FrameInputs == {[size |-> <<DEFAULT_SCREEN_WIDTH, DEFAULT_SCREEN_HEIGHT>>, cursor |-> <<100, 50>>],
                [size |-> <<800, 600>>, cursor |-> <<0, 0>>]}

\* glGenTextures and glCreateProgram return a name that is not in use
TexNames(m) == Handles \ (m.gl.textures \ {m.r.texture})
ProgNames(m) == Handles \ (m.gl.programs \ {m.r.program})

\* A NULL path cannot be opened: stbi_load returns NULL. tname matters only when
\* the image decodes.
TexInputs(m) ==
    {[tex |-> "fail", tname |-> 0]}
    \cup (IF m.texture_path = 0 THEN {}
          ELSE {[tex |-> "ok", tname |-> n] : n \in TexNames(m)})

\* A NULL path cannot be opened: the file is "unreadable". What comes after the
\* first failure is never asked for.
ShaderInputs(m) ==
    {[vfile |-> "unreadable", ffile |-> "-", linked |-> FALSE, pname |-> 0]}
    \cup (IF m.vert_path = 0 THEN {}
          ELSE {[vfile |-> "bad", ffile |-> "-", linked |-> FALSE, pname |-> 0],
                [vfile |-> "good", ffile |-> "unreadable", linked |-> FALSE, pname |-> 0]}
               \cup (IF m.frag_path = 0 THEN {}
                     ELSE {[vfile |-> "good", ffile |-> "bad", linked |-> FALSE, pname |-> 0]}
                          \cup {[vfile |-> "good", ffile |-> "good", linked |-> l, pname |-> n] :
                                   l \in BOOLEAN, n \in ProgNames(m)}))

NoInputs == [file |-> NoFile, tex |-> "-", tname |-> 0, vfile |-> "-", ffile |-> "-",
             linked |-> FALSE, pname |-> 0]

\* the answers a reload can get once the config was read as `file`
ReloadInputs(m, file) ==
    LET m1 == reload_render_conf(m, file)
    IN IF Dead(m1) THEN {[NoInputs EXCEPT !.file = file]}
       ELSE {[file |-> file, tex |-> t.tex, tname |-> t.tname, vfile |-> sh.vfile,
              ffile |-> sh.ffile, linked |-> sh.linked, pname |-> sh.pname] :
                t \in TexInputs(m1), sh \in ShaderInputs(m1)}

\* how the shader reload ended
ShaderOutcome(in) ==
    IF in.vfile = "-" THEN "-"
    ELSE IF in.vfile = "unreadable" THEN "vert_unreadable"
    ELSE IF in.vfile = "bad" THEN "vert_compile_error"
    ELSE IF in.ffile = "unreadable" THEN "frag_unreadable"
    ELSE IF in.ffile = "bad" THEN "frag_compile_error"
    ELSE IF ~in.linked THEN "link_error"
    ELSE "ok"

----------------------------------------------------------------------------
(* The state machine *)

Set(m) ==
    /\ pc' = m.pc
    /\ r' = m.r
    /\ gl' = m.gl
    /\ render_conf' = m.render_conf
    /\ vert_path' = m.vert_path
    /\ frag_path' = m.frag_path
    /\ texture_path' = m.texture_path
    /\ time' = m.time
    /\ pause' = m.pause
    /\ conf_file' = m.conf_file

Called(m, name) == \E i \in 1..Len(m.calls) : m.calls[i].call = name

\* what a reload did: the calls it made, the diagnostics of the scan, and how the
\* texture and the shader reload ended ("-" when it did not get to them)
Ran(what, in, m) ==
    [what |-> what,
     tex |-> IF Called(m, "renderer_reload_textures") THEN in.tex ELSE "-",
     shader |-> IF Called(m, "renderer_reload_shaders") THEN ShaderOutcome(in) ELSE "-",
     calls |-> m.calls, diags |-> m.diags]

Init ==
    /\ pc = "start"
    /\ r = [vao |-> 0, vbo |-> 0, program_failed |-> FALSE, program |-> 0,
            uniforms |-> <<0, 0, 0>>, vertex_buf |-> <<>>, vertex_buf_sz |-> 0,
            texture |-> 0]
    /\ gl = [clear_color |-> TRANSPARENT_BLACK, programs |-> {}, linked |-> {},
             textures |-> {}, shaders |-> 0, vbo |-> <<>>]
    /\ render_conf = <<>>
    /\ vert_path = 0
    /\ frag_path = 0
    /\ texture_path = 0
    /\ time = 0
    /\ pause = FALSE
    /\ prev_time = 0
    /\ wall = 0
    /\ conf_file = NoFile
    /\ frame_calls = <<>>
    /\ last_reload = Ran("none", NoInputs, [calls |-> <<>>, diags |-> <<>>])

\* main up to the loop
Startup(in, glfw_ok, t0) ==
    /\ pc = "start"
    /\ \E m \in {main_startup(Machine, in, glfw_ok, t0)} :
          /\ m.gl.shaders <= MaxShaders
          /\ Set(m)
          /\ wall' = (IF Dead(m) THEN wall ELSE t0)
          /\ last_reload' = Ran("main", in, m)
    /\ prev_time' = 0
    /\ UNCHANGED frame_calls

Main ==
    \E file \in LoopConfFiles, glfw_ok \in BOOLEAN :
       \E in \in ReloadInputs(Machine, file) : Startup(in, glfw_ok, 0)

\* the loop body up to glfwPollEvents
Draw ==
    /\ pc = "loop"
    /\ \E in \in FrameInputs : frame_calls' = frame_draw(Machine, in.size, in.cursor)
    /\ pc' = "poll"
    /\ UNCHANGED <<r, gl, render_conf, vert_path, frag_path, texture_path, time, pause,
                   prev_time, wall, conf_file, last_reload>>

\* glfwPollEvents delivers a key event
Key(key, action, in) ==
    /\ pc = "poll"
    /\ \E m \in {key_callback(Machine, key, action, in)} :
          /\ m.gl.shaders <= MaxShaders
          /\ m.time >= -MaxStepSpan
          /\ m.time <= 2 * MaxWall + MaxStepSpan
          /\ Set(m)
          /\ last_reload' = (IF key = "F5" /\ action = "PRESS"
                             THEN Ran("key", in, m) ELSE last_reload)
    /\ UNCHANGED <<prev_time, wall, frame_calls>>

KeyF5 == \E file \in LoopConfFiles : \E in \in ReloadInputs(Machine, file) : Key("F5", "PRESS", in)
KeyF6 == Key("F6", "PRESS", NoInputs)
KeySpace == Key("SPACE", "PRESS", NoInputs)
KeyQ == Key("Q", "PRESS", NoInputs)
KeyLeft == Key("LEFT", "PRESS", NoInputs)
KeyRight == Key("RIGHT", "PRESS", NoInputs)
\* a release or a repeat of any key, or a press of a key the callback does not know
KeyIgnored == \E key \in {"F5", "SPACE", "LEFT", "RIGHT", "Q", "A"} :
                 \E action \in {"RELEASE", "REPEAT", "PRESS"} :
                    /\ (action = "PRESS" => key = "A")
                    /\ Key(key, action, NoInputs)

\* the loop body after glfwPollEvents, lines 557-561; cur is what glfwGetTime answers
FrameEndAt(cur) ==
    /\ pc = "poll"
    /\ time' = frame_time(time, pause, cur, prev_time)
    /\ prev_time' = cur
    /\ wall' = cur
    /\ pc' = "loop"
    /\ frame_calls' = <<>>
    /\ UNCHANGED <<r, gl, render_conf, vert_path, frag_path, texture_path, pause,
                   conf_file, last_reload>>

\* glfwWindowShouldClose: main returns
Close ==
    /\ pc = "loop"
    /\ pc' = "exited"
    /\ UNCHANGED <<r, gl, render_conf, vert_path, frag_path, texture_path, time, pause,
                   prev_time, wall, conf_file, frame_calls, last_reload>>

\* the timer has not moved since it was last read
FrameEndStill == FrameEndAt(wall)
\* the timer moves on
FrameEnd == \E cur \in wall..MaxWall : FrameEndAt(cur)

(* The render loop under hot reloads: the user presses F5, F6 and Q, and    *)
(* the clock is not followed (glfwGetTime answers 0 throughout).            *)
Next ==
    \/ Main
    \/ Draw
    \/ KeyF5
    \/ KeyF6
    \/ KeyQ
    \/ FrameEndStill
    \/ Close

Spec == Init /\ [][Next]_vars

(* The render loop and its clock: render.conf and the files it names are    *)
(* good and stay so; the user pauses, steps and presses keys that are       *)
(* ignored.                                                                 *)
GoodConf == [readable |-> TRUE, lines |-> <<L_vert, L_frag, L_texture>>, nl |-> TRUE]
GoodInputs == [file |-> GoodConf, tex |-> "ok", tname |-> 1, vfile |-> "good",
               ffile |-> "good", linked |-> TRUE, pname |-> 1]

MainGood == \E t0 \in 0..MaxWall : Startup(GoodInputs, TRUE, t0)

NextClock ==
    \/ MainGood
    \/ Draw
    \/ KeySpace
    \/ KeyLeft
    \/ KeyRight
    \/ KeyIgnored
    \/ FrameEnd
    \/ Close

SpecClock == Init /\ [][NextClock]_vars

----------------------------------------------------------------------------
(* reload_render_conf alone, on every file of AllConfFiles: render.conf is  *)
(* drawn first, then main's first statement (line 481) reads it.            *)

InitConf ==
    /\ pc = "start"
    /\ r = [vao |-> 0, vbo |-> 0, program_failed |-> FALSE, program |-> 0,
            uniforms |-> <<0, 0, 0>>, vertex_buf |-> <<>>, vertex_buf_sz |-> 0,
            texture |-> 0]
    /\ gl = [clear_color |-> TRANSPARENT_BLACK, programs |-> {}, linked |-> {},
             textures |-> {}, shaders |-> 0, vbo |-> <<>>]
    /\ render_conf = <<>>
    /\ vert_path = 0
    /\ frag_path = 0
    /\ texture_path = 0
    /\ time = 0
    /\ pause = FALSE
    /\ prev_time = 0
    /\ wall = 0
    /\ conf_file \in AllConfFiles \cup {Unreadable}
    /\ frame_calls = <<>>
    /\ last_reload = Ran("none", NoInputs, [calls |-> <<>>, diags |-> <<>>])

ReadConf ==
    /\ pc = "start"
    /\ \E m \in {reload_render_conf(Machine, conf_file)} :
          /\ Set([m EXCEPT !.pc = IF Dead(m) THEN m.pc ELSE "conf"])
          /\ last_reload' = Ran("conf", NoInputs, m)
    /\ UNCHANGED <<prev_time, wall, frame_calls>>

NextConf == ReadConf

SpecConf == InitConf /\ [][NextConf]_vars

----------------------------------------------------------------------------
(* The vertex batch alone: the renderer is initialised (line 526), then any *)
(* sequence of renderer_push_vertex and renderer_sync calls.                *)

BatchVertices ==
    {[pos |-> <<-1, -1>>, uv |-> <<0, 0>>, color |-> <<1, 0, 0, 1>>],
     [pos |-> <<1, 1>>, uv |-> <<1, 1>>, color |-> <<0, 0, 0, 1>>]}

InitBatch ==
    /\ pc = "batch"
    /\ r = [vao |-> 1, vbo |-> 1, program_failed |-> FALSE, program |-> 0,
            uniforms |-> <<0, 0, 0>>, vertex_buf |-> <<>>, vertex_buf_sz |-> 0,
            texture |-> 0]
    /\ gl = [clear_color |-> TRANSPARENT_BLACK, programs |-> {}, linked |-> {},
             textures |-> {}, shaders |-> 0, vbo |-> <<>>]
    /\ render_conf = <<>>
    /\ vert_path = 0
    /\ frag_path = 0
    /\ texture_path = 0
    /\ time = 0
    /\ pause = FALSE
    /\ prev_time = 0
    /\ wall = 0
    /\ conf_file = NoFile
    /\ frame_calls = <<>>
    /\ last_reload = Ran("none", NoInputs, [calls |-> <<>>, diags |-> <<>>])

PushVertex ==
    /\ pc = "batch"
    /\ \E v \in BatchVertices :
         \E m \in {renderer_push_vertex(Machine, v.pos, v.uv, v.color)} : Set(m)
    /\ UNCHANGED <<prev_time, wall, frame_calls, last_reload>>

Sync ==
    /\ pc = "batch"
    /\ \E m \in {renderer_sync(Machine)} : Set(m)
    /\ UNCHANGED <<prev_time, wall, frame_calls, last_reload>>

NextBatch ==
    \/ PushVertex
    \/ Sync

SpecBatch == InitBatch /\ [][NextBatch]_vars

----------------------------------------------------------------------------
(* Properties of the render loop under hot reloads (Spec)                   *)

IsDrawCall(c) == c.call = "glDrawArraysInstanced"
IsTextureCall(c) == c.call \in {"glDeleteTextures", "glGenTextures"}
IsReloadStep(c) ==
    c.call \in {"reload_render_conf", "renderer_reload_textures", "renderer_reload_shaders"}

\* the shader reloads that stop at a file that cannot be read or a stage that
\* does not compile
FailedBeforeLink ==
    {"vert_unreadable", "vert_compile_error", "frag_unreadable", "frag_compile_error"}

\* a frame is rendered: the step from the top of the loop body to glfwPollEvents
FrameRendered == pc = "loop" /\ pc' = "poll"

\* the value a file gives `key`: the one of its last `key = value` line, no string
\* when it has no such line
ConfValue(file, key) ==
    LET at == {i \in 1..Len(file.lines) :
                  file.lines[i].kind = "kv" /\ file.lines[i].key = key}
    IN IF at = {} THEN <<>>
       ELSE file.lines[CHOOSE i \in at : \A j \in at : j <= i].value

\* C1: after a shader reload in which a file could not be read or a stage did not
\* compile, program_failed is true and every frame rendered before the next reload
\* issues no draw call; after a reload in which both stages were read, compiled and
\* linked, program_failed is false and every frame rendered before the next reload
\* issues its draw call.
C1_ReloadDecidesDrawing ==
    /\ [](last_reload.shader \in FailedBeforeLink => r.program_failed)
    /\ [](last_reload.shader = "ok" => ~r.program_failed)
    /\ [][FrameRendered =>
            /\ (last_reload.shader \in FailedBeforeLink =>
                   SelectSeq(frame_calls', IsDrawCall) = <<>>)
            /\ (last_reload.shader = "ok" =>
                   Len(SelectSeq(frame_calls', IsDrawCall)) = 1)]_vars

\* a frame drew after a successful F5 reload that followed a failed one: the
\* successful reload deleted a program name that the failed reload had already
\* deleted and not replaced
C1_DrawsAgainAfterFailure ==
    /\ pc = "poll"
    /\ last_reload.what = "key"
    /\ last_reload.shader = "ok"
    /\ Len(SelectSeq(frame_calls, IsDrawCall)) = 1
    /\ \E i \in 1..Len(last_reload.calls) :
          /\ last_reload.calls[i].call = "glDeleteProgram"
          /\ last_reload.calls[i].name # 0
          /\ ~last_reload.calls[i].live

\* C2: after a shader reload in which both stages compiled and the link failed,
\* program_failed is still true and the clear color is still red.
C2_LinkFailureStaysFailed ==
    last_reload.shader = "link_error" =>
        /\ r.program_failed
        /\ gl.clear_color = RED

\* C3: a step that ends with the last texture reload having failed to decode its
\* image leaves the handle in the texture slot and the set of live textures as
\* they were, and that reload neither deleted nor generated a texture.
C3_FailedDecodeKeepsTexture ==
    [][last_reload'.tex = "fail" =>
          /\ r'.texture = r.texture
          /\ gl'.textures = gl.textures
          /\ SelectSeq(last_reload'.calls, IsTextureCall) = <<>>]_vars

\* an F5 reload failed to decode the image while the slot held a live texture,
\* and the slot still holds it
C3_FailedDecodeOverLoadedTexture ==
    /\ last_reload.what = "key"
    /\ last_reload.tex = "fail"
    /\ r.texture # 0
    /\ r.texture \in gl.textures
    /\ pc = "poll"

\* C4: a frame rendered while program_failed is true issues glClear and nothing
\* else; a frame rendered while it is false issues glClear, the resolution, time
\* and mouse uniforms at the resolved locations, and then one glDrawArraysInstanced
\* of GL_TRIANGLES from 0 with vertex_buf_sz vertices and 1 instance.
C4_FrameCalls ==
    [][FrameRendered =>
          /\ Len(frame_calls') >= 1
          /\ frame_calls'[1].call = "glClear"
          /\ IF r.program_failed
             THEN Len(frame_calls') = 1
             ELSE /\ Len(frame_calls') = 5
                  /\ frame_calls'[2].call = "glUniform2f"
                  /\ frame_calls'[2].args[1] = r.uniforms[1]
                  /\ frame_calls'[3] = GLCall("glUniform1f", "-", <<r.uniforms[2], time>>)
                  /\ frame_calls'[4].call = "glUniform2f"
                  /\ frame_calls'[4].args[1] = r.uniforms[3]
                  /\ frame_calls'[5] = GLCall("glDrawArraysInstanced", "GL_TRIANGLES",
                                              <<0, r.vertex_buf_sz, 1>>)]_vars

\* a frame drew the quad main pushed
C4_FrameDrewTheBatch ==
    /\ pc = "poll"
    /\ Len(frame_calls) = 5
    /\ frame_calls[5].args = <<0, 6, 1>>

\* C7: after an F5 press, the reload ran reload_render_conf, then
\* renderer_reload_textures on the texture path of the file just read, then
\* renderer_reload_shaders on its vertex and fragment paths; when the file could
\* not be read, it ran reload_render_conf alone and the process has exited.
C7_HotReloadOrder ==
    last_reload.what = "key" =>
        LET steps == SelectSeq(last_reload.calls, IsReloadStep)
        IN IF conf_file.readable
           THEN steps = << [call |-> "reload_render_conf"],
                           [call |-> "renderer_reload_textures",
                            path |-> ConfValue(conf_file, SV_texture)],
                           [call |-> "renderer_reload_shaders",
                            vert |-> ConfValue(conf_file, SV_vert),
                            frag |-> ConfValue(conf_file, SV_frag)] >>
           ELSE /\ last_reload.calls = << [call |-> "reload_render_conf"] >>
                /\ pc = "exited"

\* an F5 press reloaded from a readable file that names a texture: the image
\* decoded and the program linked
C7_ReloadedFromNewPaths ==
    /\ last_reload.what = "key"
    /\ conf_file.readable
    /\ ConfValue(conf_file, SV_texture) # <<>>
    /\ last_reload.tex = "ok"
    /\ last_reload.shader = "ok"
    /\ pc = "poll"

\* C8: whenever the process runs on after reload_render_conf, none of the three
\* paths is NULL.
C8_ConfReloadAllOrNothing ==
    pc \in {"loop", "poll"} =>
        /\ vert_path # 0
        /\ frag_path # 0
        /\ texture_path # 0

----------------------------------------------------------------------------
(* Properties of the clock (SpecClock)                                      *)

\* a frame ends: the step from glfwPollEvents to the top of the next loop body,
\* in which glfwGetTime is sampled (wall' is the sample, wall the one before)
FrameEnded == pc = "poll" /\ pc' = "loop"

\* C5: a frame that ends while paused leaves the clock as it was, whatever the
\* timer says; a LEFT or RIGHT press changes the clock by -MANUAL_TIME_STEP or
\* +MANUAL_TIME_STEP when paused and leaves it alone when not paused; a SPACE
\* press toggles pause and leaves the clock alone.
C5_PausedClock ==
    /\ [][FrameEnded /\ pause => time' = time /\ pause']_vars
    /\ [][KeyLeft => time' = (IF pause THEN time - MANUAL_TIME_STEP ELSE time)]_vars
    /\ [][KeyRight => time' = (IF pause THEN time + MANUAL_TIME_STEP ELSE time)]_vars
    /\ [][KeySpace => time' = time /\ pause' = ~pause]_vars

\* paused, the clock was stepped back below its starting value, and a frame
\* then ended with the timer at its largest value without moving the clock
C5_FrozenWhileTimerRuns ==
    /\ pause
    /\ pc = "loop"
    /\ time < 0
    /\ prev_time = MaxWall

\* C6: a frame that ends while not paused advances the clock by the time the
\* timer moved since it was last sampled (at startup, for the first frame).
C6_ClockFollowsTimer ==
    [][FrameEnded /\ ~pause => time' = time + (wall' - wall)]_vars

----------------------------------------------------------------------------
(* Properties of the config scan (SpecConf)                                 *)

\* C9: after a readable file is scanned, each path is the value of the file's
\* line for its key, without the whitespace around it (no string when the file
\* has no line for the key).
C9_PathsAreTrimmedValues ==
    pc = "conf" =>
        /\ CStr(render_conf, vert_path) = ConfValue(conf_file, SV_vert)
        /\ CStr(render_conf, frag_path) = ConfValue(conf_file, SV_frag)
        /\ CStr(render_conf, texture_path) = ConfValue(conf_file, SV_texture)

----------------------------------------------------------------------------
(* Properties of the vertex batch (SpecBatch)                               *)

\* C10: the batch length never exceeds VERTEX_BUF_CAP and is the number of
\* vertices held; a push at full capacity aborts the process and stores nothing;
\* any other push appends its vertex after the ones held, which stay as they
\* were; renderer_sync leaves the buffer object holding exactly the vertices of
\* the batch, in order.
C10_BatchWithinCapacity ==
    /\ [](r.vertex_buf_sz <= VERTEX_BUF_CAP /\ Len(r.vertex_buf) = r.vertex_buf_sz)
    /\ [][PushVertex =>
            IF r.vertex_buf_sz = VERTEX_BUF_CAP
            THEN pc' = "aborted" /\ r' = r /\ gl' = gl
            ELSE /\ pc' = pc
                 /\ r'.vertex_buf_sz = r.vertex_buf_sz + 1
                 /\ \E v \in BatchVertices : r'.vertex_buf = Append(r.vertex_buf, v)]_vars
    /\ [][Sync => r' = r /\ gl'.vbo = r.vertex_buf]_vars

\* a full batch of both vertices was synced, and one more push aborted
C10_FullBatchSyncedThenAbort ==
    /\ pc = "aborted"
    /\ r.vertex_buf_sz = VERTEX_BUF_CAP
    /\ gl.vbo = r.vertex_buf
    /\ r.vertex_buf[1] # r.vertex_buf[VERTEX_BUF_CAP]

----------------------------------------------------------------------------
(* The vertex batch with quads (SpecQuad): renderer_push_quad on any two    *)
(* corners and color, between pushes of single vertices and syncs.          *)

QuadPoints == {<<-1, -1>>, <<1, 1>>, <<0, 2>>}
QuadColors == {<<0, 0, 0, 0>>, <<1, 0, 0, 1>>}

PushQuadOf(p1, p2, color) ==
    /\ pc = "batch"
    /\ \E m \in {renderer_push_quad(Machine, p1, p2, color)} : Set(m)
    /\ UNCHANGED <<prev_time, wall, frame_calls, last_reload>>

PushQuad == \E p1 \in QuadPoints, p2 \in QuadPoints, color \in QuadColors :
               PushQuadOf(p1, p2, color)

NextQuad ==
    \/ PushQuad
    \/ PushVertex
    \/ Sync

SpecQuad == InitBatch /\ [][NextQuad]_vars

\* the six vertices the claim gives the quad of p1, p2 and color
QuadVertices(p1, p2, color) ==
    LET V(pos, uv) == [pos |-> pos, uv |-> uv, color |-> color]
        a == V(p1, <<0, 0>>)
        b == V(<<p2[1], p1[2]>>, <<1, 0>>)
        c == V(<<p1[1], p2[2]>>, <<0, 1>>)
        d == V(p2, <<1, 1>>)
    IN <<a, b, c, b, c, d>>

\* C11: with at least 6 free slots, renderer_push_quad(p1, p2, color) appends
\* exactly the six vertices a, b, c, b, c, d after the ones held, where
\* a = p1 with UV (0,0), b = (p2.x, p1.y) with UV (1,0), c = (p1.x, p2.y) with
\* UV (0,1), d = p2 with UV (1,1), all of that color, and the process runs on.
C11_QuadAppendsTwoTriangles ==
    [][\A p1 \in QuadPoints, p2 \in QuadPoints, color \in QuadColors :
          (PushQuadOf(p1, p2, color) /\ r.vertex_buf_sz + 6 <= VERTEX_BUF_CAP) =>
              /\ r'.vertex_buf = r.vertex_buf \o QuadVertices(p1, p2, color)
              /\ r'.vertex_buf_sz = r.vertex_buf_sz + 6
              /\ pc' = "batch"]_vars

\* a quad of two different corners was pushed after a single vertex
C11_QuadAfterVertex ==
    /\ pc = "batch"
    /\ r.vertex_buf_sz = 7
    /\ r.vertex_buf[1] \in BatchVertices
    /\ SubSeq(r.vertex_buf, 2, 7) = QuadVertices(<<-1, -1>>, <<0, 2>>, <<1, 0, 0, 1>>)

----------------------------------------------------------------------------
(* More properties of the render loop under hot reloads (Spec)              *)

\* C12: a frame that draws uploads, as the mouse uniform, the cursor's x and
\* the height minus the cursor's y, the height being the one the same frame
\* uploaded in the resolution uniform; with height 900 and the cursor at
\* (100, 50) it uploads (100, 850).
C12_MouseUniformFlipsY ==
    [][(FrameRendered /\ ~r.program_failed) =>
          \E in \in FrameInputs :
             /\ frame_calls'[2].args = <<r.uniforms[1], in.size[1], in.size[2]>>
             /\ frame_calls'[4].args =
                   <<r.uniforms[3], in.cursor[1], frame_calls'[2].args[3] - in.cursor[2]>>
             /\ (in.size[2] = 900 /\ in.cursor = <<100, 50>> =>
                    SubSeq(frame_calls'[4].args, 2, 3) = <<100, 850>>)]_vars

\* a frame drew with height 900 and the cursor at (100, 50)
C12_FrameWithCursor ==
    /\ pc = "poll"
    /\ Len(frame_calls) = 5
    /\ frame_calls[2].args[3] = 900
    /\ frame_calls[4].args[2] = 100
    /\ frame_calls[4].args[3] = 850

\* the stored program is a linked program whose uniform locations are resolved
ProgramUsable ==
    /\ r.program \in gl.linked
    /\ r.uniforms = RESOLVED_UNIFORMS

\* C13: at the start of every frame the clear color is red exactly when the
\* stored program is not usable and transparent black exactly when it is, and
\* program_failed is false only when the stored program is usable.
C13_ClearColorTellsProgramState ==
    pc = "loop" =>
        /\ (gl.clear_color = RED <=> ~ProgramUsable)
        /\ (gl.clear_color = TRANSPARENT_BLACK <=> ProgramUsable)
        /\ (~r.program_failed => ProgramUsable)

\* C14: every live texture is the one in the slot, so at most one is live; a
\* reload that decoded its image deleted the texture the slot held (a live one,
\* unless the slot was empty) and then generated the one the slot holds now.
C14_OneLiveTexture ==
    /\ gl.textures \subseteq {r.texture}
    /\ Cardinality(gl.textures) <= 1
    /\ last_reload.tex = "ok" =>
          LET tc == SelectSeq(last_reload.calls, IsTextureCall)
          IN /\ Len(tc) = 2
             /\ tc[1].call = "glDeleteTextures"
             /\ (tc[1].name # 0 => tc[1].live)
             /\ tc[2] = [call |-> "glGenTextures", name |-> r.texture]
             /\ gl.textures = {r.texture}

\* an F5 reload replaced a live texture by a texture of another name
C14_TextureReplaced ==
    /\ last_reload.what = "key"
    /\ last_reload.tex = "ok"
    /\ \E i \in 1..Len(last_reload.calls) :
          /\ last_reload.calls[i].call = "glDeleteTextures"
          /\ last_reload.calls[i].live
          /\ last_reload.calls[i].name # r.texture
    /\ gl.textures = {r.texture}

IsProgramCall(c) == c.call \in {"glDeleteProgram", "glCreateProgram"}

\* C15: every live program is the one r.program names, so at most one is live;
\* a shader reload first deletes the program r.program named and creates a program
\* only after that, at most one, which r.program then names.
C15_OneLiveProgram ==
    /\ gl.programs \subseteq {r.program}
    /\ Cardinality(gl.programs) <= 1
    /\ last_reload.shader # "-" =>
          LET prc == SelectSeq(last_reload.calls, IsProgramCall)
          IN /\ Len(prc) \in {1, 2}
             /\ prc[1].call = "glDeleteProgram"
             /\ Len(prc) = 2 =>
                   /\ prc[2] = [call |-> "glCreateProgram", name |-> r.program]
                   /\ gl.programs = {r.program}

\* an F5 reload deleted a live program and created one of another name
C15_ProgramReplaced ==
    /\ last_reload.what = "key"
    /\ last_reload.shader \in {"ok", "link_error"}
    /\ \E i \in 1..Len(last_reload.calls) :
          /\ last_reload.calls[i].call = "glDeleteProgram"
          /\ last_reload.calls[i].live
          /\ last_reload.calls[i].name # r.program
    /\ gl.programs = {r.program}

\* C16: once a shader reload has returned, no shader object is live.
C16_NoShaderObjectLeft ==
    last_reload.shader # "-" => gl.shaders = 0

\* the two reloads in the order of the F5 branch and in the other order, t and sh
\* being what the files and the graphics API answer
TexturesThenShaders(m, t, sh) ==
    renderer_reload_shaders(renderer_reload_textures(m, t.tex, t.tname),
                            sh.vfile, sh.ffile, sh.linked, sh.pname)
ShadersThenTextures(m, t, sh) ==
    renderer_reload_textures(renderer_reload_shaders(m, sh.vfile, sh.ffile, sh.linked, sh.pname),
                             t.tex, t.tname)
TexturesOnly(m, t) == renderer_reload_textures(m, t.tex, t.tname)
ShadersOnly(m, sh) == renderer_reload_shaders(m, sh.vfile, sh.ffile, sh.linked, sh.pname)

\* the renderer and the graphics state of m
RendererState(m) == <<m.r, m.gl>>

\* n differs from m in nothing a shader reload decides, and not in the batch
KeepsProgramAndBatch(m, n) ==
    /\ n.r.program = m.r.program
    /\ n.r.program_failed = m.r.program_failed
    /\ n.r.uniforms = m.r.uniforms
    /\ n.gl.clear_color = m.gl.clear_color
    /\ n.gl.programs = m.gl.programs
    /\ n.r.vertex_buf = m.r.vertex_buf
    /\ n.r.vertex_buf_sz = m.r.vertex_buf_sz

\* n differs from m in nothing a texture reload decides, and not in the batch
KeepsTextureAndBatch(m, n) ==
    /\ n.r.texture = m.r.texture
    /\ n.gl.textures = m.gl.textures
    /\ n.r.vertex_buf = m.r.vertex_buf
    /\ n.r.vertex_buf_sz = m.r.vertex_buf_sz

\* C17: from every state the renderer is in at the top of the loop body (a
\* frame that ends changes nothing of it) and for every outcome of the files,
\* renderer_reload_textures leaves the program, program_failed, the uniform
\* locations and the clear color as they were, renderer_reload_shaders leaves
\* the texture slot as it was, both leave the vertex batch and its length as
\* they were, and the two reloads in either order end in the same renderer and
\* graphics state.
C17_ReloadsAreIndependent ==
    pc = "loop" =>
        /\ \A t \in TexInputs(Machine) :
              KeepsProgramAndBatch(Machine, TexturesOnly(Machine, t))
        /\ \A sh \in ShaderInputs(Machine) :
              KeepsTextureAndBatch(Machine, ShadersOnly(Machine, sh))
        /\ \A t \in TexInputs(Machine), sh \in ShaderInputs(Machine) :
              RendererState(TexturesThenShaders(Machine, t, sh))
                  = RendererState(ShadersThenTextures(Machine, t, sh))

\* a state of the render loop, with a texture and a program loaded, from which
\* a reload that replaces both ends in the same renderer in either order
C17_BothReplacedEitherOrder ==
    /\ pc = "loop"
    /\ r.texture \in gl.textures
    /\ r.program \in gl.linked
    /\ \E t \in TexInputs(Machine), sh \in ShaderInputs(Machine) :
          /\ t.tex = "ok"
          /\ t.tname # r.texture
          /\ ShaderOutcome(sh) = "ok"
          /\ sh.pname # r.program
          /\ TexturesThenShaders(Machine, t, sh).r = ShadersThenTextures(Machine, t, sh).r
          /\ TexturesThenShaders(Machine, t, sh).r.texture = t.tname
          /\ TexturesThenShaders(Machine, t, sh).r.program = sh.pname

----------------------------------------------------------------------------
(* More properties of the clock (SpecClock)                                 *)

\* C18: every frame refreshes the previous-frame sample, paused or not, and
\* every step after startup changes the clock by exactly this much: a frame that ends unpaused,
\* by the time the timer moved since the sample before it (the startup sample,
\* for the first frame); a LEFT or RIGHT press while paused, by -MANUAL_TIME_STEP
\* or +MANUAL_TIME_STEP; anything else, a frame that ends paused included, by
\* nothing. So the clock is its start value plus the deltas of the frames that
\* ended unpaused plus the steps taken while paused.
C18_ClockAccounting ==
    /\ [][FrameEnded => prev_time' = wall']_vars
    /\ [][pc # "start" =>
             time' - time =
               (IF FrameEnded THEN (IF pause THEN 0 ELSE wall' - wall)
                ELSE IF pause /\ KeyLeft THEN -MANUAL_TIME_STEP
                ELSE IF pause /\ KeyRight THEN MANUAL_TIME_STEP
                ELSE 0)]_vars

----------------------------------------------------------------------------
(* More properties of the render loop under hot reloads (Spec), continued   *)

\* C19: every glDeleteProgram of a reload is given 0 (which is ignored) or the
\* name of a live program, never a name that was already deleted.
C19_NoStaleProgramDelete ==
    \A i \in 1..Len(last_reload.calls) :
        last_reload.calls[i].call = "glDeleteProgram" =>
            (last_reload.calls[i].name = 0 \/ last_reload.calls[i].live)

=============================================================================
